---- MODULE Spec2Model ----
(***************************************************************************)
(* PlayGuard HTML5 SDK: the reconnecting WebSocket transport (WSClient),   *)
(* the registry and command dispatcher of PlayGuardSDK, and the singleton  *)
(* accessor.  Objects are numbered: bridge instance i owns WSClient i.     *)
(***************************************************************************)
EXTENDS Integers, Sequences, FiniteSets, TLC

\* ---------------------------------------------------------------- bounds
MaxInst == 3        \* bridge instances ever constructed
MaxSock == 3        \* WebSocket objects ever constructed
MaxSend == 2        \* send() calls made directly on a WSClient
MaxReg == 2         \* register* calls
MaxCmds == 2        \* inbound commands (JSON documents) the controller sends
MaxFrameLen == 4    \* characters of an inbound text frame (framing study)
MaxReconnects == 1  \* reconnects of a bridge instance (dispatcher studies)

NULL == 0           \* JavaScript null for object handles
Instances == 1..MaxInst
SockIds == 1..MaxSock

VARIABLES
  _instance,        \* PlayGuardSDK._instance: an instance or NULL
  nInst,            \* instances constructed so far: 1..nInst exist
  urlOk,            \* [i]: whether new WebSocket(url) accepts the client's url
  ws,               \* [i]: WSClient.ws, a socket or NULL
  reconnectTimer,   \* [i]: WSClient.reconnectTimer, a timer handle or NULL
  connected,        \* [i]: WSClient.connected
  destroyed,        \* [i]: WSClient.destroyed
  sockState,        \* [s]: readyState of WebSocket s ("NONE" before construction)
  sockOwner,        \* [s]: the WSClient whose handlers socket s carries
  sockErrored,      \* sockets that have raised an error event
  nSock,            \* WebSocket objects constructed so far
  timers,           \* pending setTimeout handles (a handle is named after
                    \* the socket whose close event armed it)
  properties,       \* [i]: PlayGuardSDK.properties, a Map in insertion order
  actions,          \* [i]: PlayGuardSDK.actions
  commands,         \* [i]: PlayGuardSDK.commands
  elements,         \* [i]: PlayGuardSDK.elements
  pending,          \* handleCommand invocations suspended at an await
  wire,             \* what was written to sockets, in order: [sock, call, msg]
  calls,            \* history: every send() call: [inst, ws, state, msg, origin, dead]
  inbound,          \* history: every command handed to handleCommand, with the
                    \* registrations made before it (reg), what the position
                    \* getter it reads does (posk), the ids used before its
                    \* frame (frame) and the send() calls made before its
                    \* dispatch (sends)
  completed,        \* history: dispatches whose host callable has finished
  rejected,         \* history: dispatches whose handleCommand promise rejected
  expect,           \* history: ids of the well-formed lines of the frames so far
  nId,              \* history: ids the controller has used (1..nId)
  lastLines,        \* history: what each line of the latest frame was:
                    \* "blank", "bad" (no JSON) or "good"
  lastReg,          \* history: [i][map][name]: callable of the latest register call
  nReg,             \* history: register* calls made
  variant,          \* which build of PlayGuardSDK is loaded: "pointer" (the
                    \* pointer-listener Tap Router) or "explicit" (notifyTapped)
  clickMonitoringActive,  \* [i]: PlayGuardSDK.clickMonitoringActive
  listeners,        \* the window's capture listeners for pointerdown, in the
                    \* order they were added: instances whose boundPointerDown
                    \* is installed
  injected,         \* history: synthetic events tapElement has dispatched
  lastTap,          \* history: [i]: the latest pointer-down instance i handled
  notes             \* history: <<i, what>>: client i saw the WebSocket constructor
                    \* throw ("throw"), or had connect() ("lateConnect") or a
                    \* reconnect timer ("lateTimer") run after destroy()

tvars == <<ws, reconnectTimer, connected, destroyed, sockState, sockOwner,
           sockErrored, nSock, timers>>
ivars == <<_instance, nInst, urlOk>>
hvars == <<notes>>
pvars == <<variant, clickMonitoringActive, listeners>>
wvars == <<wire, calls>>
rvars == <<properties, actions, commands, elements, lastReg, nReg>>
dvars == <<pending, inbound, completed, rejected, expect, nId, lastLines, injected, lastTap>>
vars == <<ivars, tvars, wvars, rvars, dvars, hvars, pvars>>

Exists(i) == i \in 1..nInst

\* ------------------------------------------------------------- transport

\* A socket that is connecting or open.
Live(s) == sockState[s] \in {"CONNECTING", "OPEN"}

\* readyState of a client's current socket ("NONE" when ws is null).
ReadyState(i) == IF ws[i] = NULL THEN "NONE" ELSE sockState[ws[i]]

\* (mutation of ConnectOpens: _connect does not test the destroyed flag)
ConnectOpens_IgnoresDestroyed(i) == urlOk[i]

\* WSClient._connect: does the call reach `new WebSocket` and succeed?
ConnectOpens(i) == ~destroyed[i] /\ urlOk[i]

\* WSClient._connect, as a relation on the socket part of the state; `late`
\* names the caller, for the history of calls made after destroy().
ConnectEffect(i, late) ==
  /\ IF ConnectOpens(i)
     THEN /\ nSock < MaxSock
          /\ nSock' = nSock + 1
          /\ sockState' = [sockState EXCEPT ![nSock + 1] = "CONNECTING"]
          /\ sockOwner' = [sockOwner EXCEPT ![nSock + 1] = i]
          /\ ws' = [ws EXCEPT ![i] = nSock + 1]
     ELSE UNCHANGED <<nSock, sockState, sockOwner, ws>>
  /\ notes' = notes \cup (IF destroyed[i] THEN {<<i, late>>}
                          ELSE IF ~urlOk[i] THEN {<<i, "throw">>} ELSE {})

\* WSClient.connect(): the test before _connect
ConnectGuard(i) == ws[i] = NULL /\ ~destroyed[i]

\* WSClient.connect()
connect(i) ==
  /\ Exists(i)
  /\ IF ConnectGuard(i)
     THEN ConnectEffect(i, "lateConnect")
     ELSE /\ UNCHANGED <<nSock, sockState, sockOwner, ws>>
          /\ notes' = notes \cup (IF destroyed[i] THEN {<<i, "lateConnect">>} ELSE {})
  /\ UNCHANGED <<reconnectTimer, connected, destroyed, sockErrored, timers>>
  /\ UNCHANGED <<ivars, wvars, rvars, dvars, pvars>>

\* ws.onopen
onopen(s) ==
  /\ sockState[s] = "CONNECTING"
  /\ s \notin sockErrored
  /\ sockState' = [sockState EXCEPT ![s] = "OPEN"]
  /\ connected' = [connected EXCEPT ![sockOwner[s]] = TRUE]
  /\ UNCHANGED <<ws, reconnectTimer, destroyed, sockOwner, sockErrored, nSock, timers>>
  /\ UNCHANGED <<ivars, wvars, rvars, dvars, hvars, pvars>>

\* ws.onclose: does the handler arm a reconnect timer?
CloseSchedules(i) == ~destroyed[i]

\* ws.onclose (the socket closed remotely, failed, or finished a local close())
onclose(s) ==
  /\ sockState[s] \in {"CONNECTING", "OPEN", "CLOSING"}
  /\ sockState' = [sockState EXCEPT ![s] = "CLOSED"]
  /\ connected' = [connected EXCEPT ![sockOwner[s]] = FALSE]
  /\ ws' = [ws EXCEPT ![sockOwner[s]] = NULL]
  /\ IF CloseSchedules(sockOwner[s])
     THEN /\ timers' = timers \cup {s}
          /\ reconnectTimer' = [reconnectTimer EXCEPT ![sockOwner[s]] = s]
     ELSE UNCHANGED <<timers, reconnectTimer>>
  /\ UNCHANGED <<destroyed, sockOwner, sockErrored, nSock>>
  /\ UNCHANGED <<ivars, wvars, rvars, dvars, hvars, pvars>>

\* ws.onerror: the handler is empty; the browser lets only a close event follow
onerror(s) ==
  /\ Live(s)
  /\ s \notin sockErrored
  /\ sockErrored' = sockErrored \cup {s}
  /\ UNCHANGED <<ws, reconnectTimer, connected, destroyed, sockState, sockOwner,
                 nSock, timers>>
  /\ UNCHANGED <<ivars, wvars, rvars, dvars, hvars, pvars>>

\* the setTimeout callback of ws.onclose: () => this._connect()
TimerFire(t) ==
  /\ t \in timers
  /\ timers' = timers \ {t}
  /\ ConnectEffect(sockOwner[t], "lateTimer")
  /\ UNCHANGED <<reconnectTimer, connected, destroyed, sockErrored>>
  /\ UNCHANGED <<ivars, wvars, rvars, dvars, pvars>>

\* WSClient.destroy, as a relation on the transport state
DestroyEffect(i) ==
  /\ destroyed' = [destroyed EXCEPT ![i] = TRUE]
  /\ timers' = timers \ {reconnectTimer[i]}
  /\ reconnectTimer' = [reconnectTimer EXCEPT ![i] = NULL]
  /\ sockState' = IF ws[i] # NULL /\ Live(ws[i])
                  THEN [sockState EXCEPT ![ws[i]] = "CLOSING"]
                  ELSE sockState
  /\ ws' = [ws EXCEPT ![i] = NULL]
  /\ connected' = [connected EXCEPT ![i] = FALSE]
  /\ UNCHANGED <<sockOwner, sockErrored, nSock>>

\* WSClient.destroy()
WSClient_destroy(i) ==
  /\ Exists(i)
  /\ DestroyEffect(i)
  /\ UNCHANGED <<ivars, wvars, rvars, dvars, hvars, pvars>>

\* An optional field that is not there (undefined).
Absent == <<>>

\* A message as passed to send(): PlayGuardResponse fields, for every message.
Message(type, id, command, success, data, error) ==
  [type |-> type, id |-> id, command |-> command, success |-> success,
   data |-> data, error |-> error]

\* JSON.stringify(response) throws on a value it cannot serialize.
Serializable(msg) ==
  ~(msg.data # Absent /\ msg.data[1] = "val" /\ msg.data[2] = "circ")

\* JSON.stringify writes a value that JSON cannot represent (NaN) as null.
JsonData(data) ==
  IF data # Absent /\ data[1] = "val" /\ data[2] = "nan"
  THEN <<"val", "null">>
  ELSE data

\* the text written for a message
Stringify(msg) == [msg EXCEPT !.data = JsonData(@)]

\* (mutation of SendWrites: the test is `this.ws` instead of its readyState)
SendWrites_AnySocket(i) == ws[i] # NULL

\* WSClient.send: is the socket test passed?
SendWrites(i) == ReadyState(i) = "OPEN"

\* WSClient.send throws (JSON.stringify, evaluated only past the socket test)
SendThrows(i, msg) == SendWrites(i) /\ ~Serializable(msg)

\* (mutation of Send: the message reaches the socket before the failure of
\* its serialization is noticed)
Send_WritesUnserializable(wc, i, msg, o) ==
  LET c == [inst |-> i, ws |-> ws[i], state |-> ReadyState(i), msg |-> msg,
            origin |-> o, dead |-> destroyed[i]]
      k == Len(wc[2]) + 1
  IN <<IF SendWrites(i)
       THEN Append(wc[1], [sock |-> ws[i], call |-> k, msg |-> Stringify(msg)])
       ELSE wc[1],
       Append(wc[2], c)>>

\* WSClient.send(msg) applied to a pair <<wire, calls>>; o is the dispatch
\* the message answers (0: none).
Send(wc, i, msg, o) ==
  LET c == [inst |-> i, ws |-> ws[i], state |-> ReadyState(i), msg |-> msg,
            origin |-> o, dead |-> destroyed[i]]
      k == Len(wc[2]) + 1
  IN <<IF SendWrites(i) /\ Serializable(msg)
       THEN Append(wc[1], [sock |-> ws[i], call |-> k, msg |-> Stringify(msg)])
       ELSE wc[1],
       Append(wc[2], c)>>

\* WSClient.send() called with an opaque message
send(i) ==
  /\ Exists(i)
  /\ Len(calls) < MaxSend
  /\ LET r == Send(<<wire, calls>>, i,
                   Message("raw", 0, "", TRUE, Absent, Absent), 0)
     IN wire' = r[1] /\ calls' = r[2]
  /\ UNCHANGED <<ivars, tvars, rvars, dvars, hvars, pvars>>

\* WSClient.isConnected()
isConnected(i) == connected[i]

\* -------------------------------------------------------------- registry

\* No node (elementFromPoint returned null), and no pointer-down handled yet.
NoNode == "none"
NoTap == [seen |-> FALSE, x |-> 0, y |-> 0, tapped |-> NoNode, els |-> <<>>, sent |-> <<>>]

Names == {"a", "b"}          \* names the host registers
Callables == <<"f", "g", "h">>   \* host callables
Callable(k) == Callables[((k - 1) % Len(Callables)) + 1]   \* of the k-th register call
MapKinds == {"properties", "actions", "commands", "elements"}
NoFn == "none"

\* Map.prototype.has / get / set / keys on a Map kept as its entries in
\* insertion order
MapHas(m, k) == \E j \in 1..Len(m) : m[j].name = k

MapGet(m, k) == m[CHOOSE j \in 1..Len(m) : m[j].name = k].fn

\* (mutation of MapSet: an entry is added whether or not the name is there)
MapSet_AlwaysAppends(m, k, v) == Append(m, [name |-> k, fn |-> v])

MapSet(m, k, v) ==
  IF MapHas(m, k)
  THEN [j \in 1..Len(m) |-> IF m[j].name = k THEN [name |-> k, fn |-> v] ELSE m[j]]
  ELSE Append(m, [name |-> k, fn |-> v])

MapKeys(m) == [j \in 1..Len(m) |-> m[j].name]

Registered(i, kind, name, fn) ==
  /\ nReg < MaxReg
  /\ nReg' = nReg + 1
  /\ lastReg' = [lastReg EXCEPT ![i][kind][name] = fn]

registerProperty(i, name, fn) ==
  /\ Exists(i)
  /\ properties' = [properties EXCEPT ![i] = MapSet(@, name, fn)]
  /\ Registered(i, "properties", name, fn)
  /\ UNCHANGED <<actions, commands, elements>>
  /\ UNCHANGED <<ivars, tvars, wvars, dvars, hvars, pvars>>

registerAction(i, name, fn) ==
  /\ Exists(i)
  /\ actions' = [actions EXCEPT ![i] = MapSet(@, name, fn)]
  /\ Registered(i, "actions", name, fn)
  /\ UNCHANGED <<properties, commands, elements>>
  /\ UNCHANGED <<ivars, tvars, wvars, dvars, hvars, pvars>>

registerCommand(i, name, fn) ==
  /\ Exists(i)
  /\ commands' = [commands EXCEPT ![i] = MapSet(@, name, fn)]
  /\ Registered(i, "commands", name, fn)
  /\ UNCHANGED <<properties, actions, elements>>
  /\ UNCHANGED <<ivars, tvars, wvars, dvars, hvars, pvars>>

\* window.addEventListener('pointerdown', listener, true): adding a listener
\* that is already there adds nothing
AddListener(ls, i) ==
  IF \E k \in 1..Len(ls) : ls[k] = i THEN ls ELSE Append(ls, i)

\* window.removeEventListener('pointerdown', listener, true)
RemoveListener(ls, i) == SelectSeq(ls, LAMBDA j : j # i)

\* (mutation of Installs: the explicit-notification build installs it too)
Installs_AnyBuild(i) == ~clickMonitoringActive[i]

\* registerElement: is the pointer listener to be installed?
Installs(i) == variant = "pointer" /\ ~clickMonitoringActive[i]

registerElement(i, name, fn) ==
  /\ Exists(i)
  /\ elements' = [elements EXCEPT ![i] = MapSet(@, name, fn)]
  /\ Registered(i, "elements", name, fn)
  /\ clickMonitoringActive' =
       IF Installs(i) THEN [clickMonitoringActive EXCEPT ![i] = TRUE]
       ELSE clickMonitoringActive
  /\ listeners' = IF Installs(i) THEN AddListener(listeners, i) ELSE listeners
  /\ UNCHANGED <<properties, actions, commands, variant>>
  /\ UNCHANGED <<ivars, tvars, wvars, dvars, hvars>>

\* ------------------------------------------------------------ dispatcher

\* What a host callable does when invoked: `out` is "ret" (returns val),
\* "throw" (throws val) or "async" (returns a promise that is still pending);
\* pos[name] is what the position-getter of element `name` does.
PosAt(x, y) == [k |-> "pos", x |-> x, y |-> y]
PosNull == [k |-> "null", x |-> 0, y |-> 0]
PosThrow == [k |-> "throw", x |-> 0, y |-> 0]

\* The document: a few nodes in a tree, one of them a <canvas>, and a page
\* that says which node is topmost at each point it covers.
Nodes == {"root", "btn", "icon", "side", "canvas"}
ParentOf ==
  [n \in Nodes \cup {NoNode} |->
     CASE n = "icon" -> "btn"
       [] n \in {"btn", "side", "canvas"} -> "root"
       [] OTHER -> NoNode]

\* Element.tagName
TagName(n) == IF n = "canvas" THEN "CANVAS" ELSE "DIV"

\* (mutation of Contains: only the node itself and its children)
Contains_ChildOnly(a, b) == a # NoNode /\ (a = b \/ ParentOf[b] = a)

\* Node.contains: a is b or an ancestor of b
Contains(a, b) ==
  a # NoNode /\ (a = b \/ ParentOf[b] = a \/ ParentOf[ParentOf[b]] = a)

BlankPage == [pt \in {} |-> NoNode]

\* document.elementFromPoint(x, y)
elementFromPoint(page, x, y) ==
  IF <<x, y>> \in DOMAIN page THEN page[<<x, y>>] ELSE NoNode

\* A host: what its callable does (out, val), what each element's position
\* getter does (pos), and the page shown.
HostOn(out, val, posf, page) == [out |-> out, val |-> val, pos |-> posf, page |-> page]
Host(out, val, pa) == HostOn(out, val, [n \in Names |-> pa], BlankPage)
NoHost == Host("ret", "", PosNull)

\* Characters of a text frame: a newline, a blank, a character that is no
\* JSON, or the text of one JSON command document (with what the host
\* callable it reaches will do).
NoDoc == [id |-> 0, command |-> "", name |-> ""]
TokNl == [t |-> "nl", doc |-> NoDoc, host |-> NoHost]
TokSp == [t |-> "sp", doc |-> NoDoc, host |-> NoHost]
TokX == [t |-> "x", doc |-> NoDoc, host |-> NoHost]
J(command, name, host) ==
  [t |-> "json", doc |-> [id |-> 0, command |-> command, name |-> name],
   host |-> host]

\* The controller numbers the documents of a frame n+1, n+2, ...
WithIds(text, n) ==
  [p \in 1..Len(text) |->
     IF text[p].t = "json"
     THEN [text[p] EXCEPT
             !.doc.id = n + Cardinality({q \in 1..p : text[q].t = "json"})]
     ELSE text[p]]

NJson(text) == Cardinality({q \in 1..Len(text) : text[q].t = "json"})

\* String(event.data).split('\n')
RECURSIVE SplitFrom(_, _, _, _)
SplitFrom(text, k, cur, out) ==
  IF k > Len(text) THEN Append(out, cur)
  ELSE IF text[k].t = "nl" THEN SplitFrom(text, k + 1, <<>>, Append(out, cur))
  ELSE SplitFrom(text, k + 1, Append(cur, text[k]), out)

Split(text) == SplitFrom(text, 1, <<>>, <<>>)

\* !line.trim()
IsBlank(line) == \A j \in 1..Len(line) : line[j].t = "sp"

\* JSON.parse(line): succeeds on one document between optional blanks
NonBlank(tok) == tok.t # "sp"

ParseOk(line) ==
  LET body == SelectSeq(line, NonBlank)
  IN Len(body) = 1 /\ body[1].t = "json"

Parsed(line) == SelectSeq(line, NonBlank)[1]

\* PlayGuardSDK.sendEvent
sendEvent(acc, i, event, data) ==
  LET r == Send(<<acc.wire, acc.calls>>, i,
                Message("event", 0, event, TRUE, data, Absent), 0)
  IN [acc EXCEPT !.wire = r[1], !.calls = r[2]]

\* (mutation of DomMatch: the loop goes on after a match, one event for each
\* element that matches)
RECURSIVE DomMatch_NoReturn(_, _, _, _, _, _)
DomMatch_NoReturn(els, k, host, tapped, x, y) ==
  IF k > Len(els) THEN <<>>
  ELSE LET name == els[k].name
           pos == host.pos[name]
           elAtCenter == elementFromPoint(host.page, pos.x, pos.y)
           rest == DomMatch_NoReturn(els, k + 1, host, tapped, x, y)
       IN IF pos.k = "throw" THEN <<>>
          ELSE IF pos.k = "null" THEN rest
          ELSE IF elAtCenter = NoNode \/ TagName(elAtCenter) = "CANVAS" THEN rest
          ELSE IF elAtCenter = tapped \/ Contains(elAtCenter, tapped)
                  \/ Contains(tapped, elAtCenter)
          THEN <<<<"tap", name, "dom", <<x, y, pos.x, pos.y>>>>>> \o rest
          ELSE rest

\* onPointerDown, DOM branch: the loop over the elements from entry k; the
\* events to send (none or one). A getter that throws ends the listener.
RECURSIVE DomMatch(_, _, _, _, _, _)
DomMatch(els, k, host, tapped, x, y) ==
  IF k > Len(els) THEN <<>>
  ELSE LET name == els[k].name
           pos == host.pos[name]
           elAtCenter == elementFromPoint(host.page, pos.x, pos.y)
       IN IF pos.k = "throw" THEN <<>>
          ELSE IF pos.k = "null" THEN DomMatch(els, k + 1, host, tapped, x, y)
          ELSE IF elAtCenter = NoNode \/ TagName(elAtCenter) = "CANVAS"
          THEN DomMatch(els, k + 1, host, tapped, x, y)
          ELSE IF elAtCenter = tapped \/ Contains(elAtCenter, tapped)
                  \/ Contains(tapped, elAtCenter)
          THEN <<<<"tap", name, "dom", <<x, y, pos.x, pos.y>>>>>>
          ELSE DomMatch(els, k + 1, host, tapped, x, y)

THRESHOLD == 35

\* (mutation of Dist2: the vertical offset is left out)
Dist2_Horizontal(pos, x, y) == (pos.x - x) * (pos.x - x)

\* (pos.x - clientX) ** 2 + (pos.y - clientY) ** 2
Dist2(pos, x, y) == (pos.x - x) * (pos.x - x) + (pos.y - y) * (pos.y - y)

\* (mutation of Closer: the comparison is <=)
Closer_OrEqual(d2, c2) == d2 <= c2

\* dist < closestDist, for the square roots of the integers d2 and c2
Closer(d2, c2) == d2 < c2

\* Math.round(Math.sqrt(n)), for n up to the square of THRESHOLD
RoundSqrt(n) ==
  CHOOSE r \in 0..THRESHOLD :
    /\ r = 0 \/ (2 * r - 1) * (2 * r - 1) <= 4 * n
    /\ 4 * n < (2 * r + 1) * (2 * r + 1)

\* onPointerDown, canvas branch: the loop from entry k with the closest
\* element so far (closestName null: found is FALSE)
RECURSIVE CanvasLoop(_, _, _, _, _, _)
CanvasLoop(els, k, host, x, y, best) ==
  IF k > Len(els) THEN best
  ELSE LET name == els[k].name
           pos == host.pos[name]
       IN IF pos.k = "throw" THEN [best EXCEPT !.threw = TRUE]
          ELSE IF pos.k = "null" THEN CanvasLoop(els, k + 1, host, x, y, best)
          ELSE IF Closer(Dist2(pos, x, y), best.d2)
          THEN CanvasLoop(els, k + 1, host, x, y,
                          [found |-> TRUE, threw |-> FALSE, name |-> name,
                           d2 |-> Dist2(pos, x, y), pos |-> pos])
          ELSE CanvasLoop(els, k + 1, host, x, y, best)

CanvasMatch(els, host, x, y) ==
  LET best == CanvasLoop(els, 1, host, x, y,
                         [found |-> FALSE, threw |-> FALSE, name |-> "",
                          d2 |-> THRESHOLD * THRESHOLD, pos |-> PosNull])
  IN IF best.found /\ ~best.threw
     THEN <<<<"tap", best.name, "canvas",
              <<x, y, best.pos.x, best.pos.y, RoundSqrt(best.d2)>>>>>>
     ELSE <<>>

\* What the listener saw of each element: its name, what its getter gave and
\* the node at that position.
Seen(els, host) ==
  [k \in 1..Len(els) |->
     [name |-> els[k].name, pos |-> host.pos[els[k].name],
      at |-> elementFromPoint(host.page, host.pos[els[k].name].x,
                              host.pos[els[k].name].y)]]

\* PlayGuardSDK.onPointerDown of instance j for a pointer-down at (x, y)
onPointerDown(acc, j, x, y, host) ==
  LET els == elements[j]
      tapped == elementFromPoint(host.page, x, y)
      evs == IF Len(els) = 0 \/ tapped = NoNode THEN <<>>
             ELSE IF TagName(tapped) # "CANVAS"
             THEN DomMatch(els, 1, host, tapped, x, y)
             ELSE CanvasMatch(els, host, x, y)
      a1 == IF evs = <<>> THEN acc ELSE sendEvent(acc, j, "elementTapped", evs[1])
  IN [a1 EXCEPT !.lastTap[j] =
        [seen |-> TRUE, x |-> x, y |-> y, tapped |-> tapped,
         els |-> Seen(els, host), sent |-> evs]]

\* A pointerdown event reaches the window: its capture listeners run in the
\* order they were added.
RECURSIVE RunListeners(_, _, _, _, _, _)
RunListeners(acc, ls, k, x, y, host) ==
  IF k > Len(ls) THEN acc
  ELSE RunListeners(onPointerDown(acc, ls[k], x, y, host), ls, k + 1, x, y, host)

\* target.dispatchEvent(new PointerEvent(type, opts)) by dispatch o
Dispatched(acc, o, type, target, x, y) ==
  [acc EXCEPT !.injected =
     Append(@, [origin |-> o, type |-> type, node |-> target, x |-> x, y |-> y,
                sends |-> Len(acc.calls)])]

\* (mutation of PosMissing: the null test is left out)
PosMissing_Never(pos) == FALSE

\* handleCommand tapElement: `if (!pos)`
PosMissing(pos) == pos.k = "null"

\* handleCommand tapElement, from elementFromPoint on: the three synthetic
\* events when a node is there; the pointerdown bubbles, so the window's
\* listeners see it.
Tap(acc, o, host, pos) ==
  LET target == elementFromPoint(host.page, pos.x, pos.y)
      down == Dispatched(acc, o, "pointerdown", target, pos.x, pos.y)
      seen == RunListeners(down, listeners, 1, pos.x, pos.y, host)
      up == Dispatched(seen, o, "pointerup", target, pos.x, pos.y)
  IN IF target = NoNode THEN acc
     ELSE Dispatched(up, o, "click", target, pos.x, pos.y)

\* The socket a command arrived on is still the client's open socket.
Stayed(i, s) == ws[i] = s /\ sockState[s] = "OPEN"

\* The host callable of dispatch o finished: `how` is "ret", "throw", "null"
\* (a position getter returned null), "resolve" or "reject", with value val.
Complete(acc, o, i, s, how, val) ==
  [acc EXCEPT !.completed = @ \cup {[origin |-> o, stayed |-> Stayed(i, s),
                                      how |-> how, val |-> val]}]

\* An exception leaves handleCommand: the promise it returned rejects.
Reject(acc, o) == [acc EXCEPT !.rejected = @ \cup {o}]

\* PlayGuardSDK.respond
respond(acc, i, o, id, command, success, data, error) ==
  LET r == Send(<<acc.wire, acc.calls>>, i,
                Message("response", id, command, success, data, error), o)
  IN [acc EXCEPT !.wire = r[1], !.calls = r[2]]

\* (mutation of Locals: id and command are read from a field that every
\* dispatch overwrites)
Locals_Shared(acc, p) ==
  [id |-> acc.inbound[Len(acc.inbound)].id,
   command |-> acc.inbound[Len(acc.inbound)].command]

\* `const { id, command } = cmd`: the locals a suspended handleCommand keeps
Locals(acc, p) == [id |-> p.id, command |-> p.command]

\* handleCommand after `await fn(...)`: the promise settled with out/val
Resume(acc, i, p, out, val) ==
  LET a1 == Complete(acc, p.origin, i, p.sock, out, val)
      id == Locals(acc, p).id
      c == Locals(acc, p).command
      data == IF val = "undef" THEN Absent ELSE <<"val", val>>
      ok == respond(a1, i, p.origin, id, c, TRUE,
                    IF p.kind = "action" THEN Absent ELSE data, Absent)
  IN IF out = "reject"
     THEN respond(a1, i, p.origin, id, c, FALSE, Absent, <<"thrown", val>>)
     ELSE IF p.kind = "command"
             /\ SendThrows(i, Message("response", id, c, TRUE, data, Absent))
          THEN respond(ok, i, p.origin, id, c, FALSE, Absent,
                       <<"thrown", "TypeError">>)
          ELSE ok

\* (mutation of Await: the code after `await` runs at once when the callable
\* has returned, before the next line of the frame)
Await_AnswersAtOnce(acc, i, s, o, cmd, host, kind) ==
  LET p == [origin |-> o, inst |-> i, id |-> cmd.id, command |-> cmd.command,
            kind |-> kind, sock |-> s]
  IN CASE host.out = "throw" ->
            respond(Complete(acc, o, i, s, "throw", host.val), i, o, cmd.id, cmd.command, FALSE,
                    Absent, <<"thrown", host.val>>)
       [] host.out = "ret" -> Resume(acc, i, p, "resolve", host.val)
       [] OTHER ->
            [acc EXCEPT !.pending = @ \cup {p}]

\* handleCommand, `await fn(...)` reached with fn registered
Await(acc, i, s, o, cmd, host, kind) ==
  LET p == [origin |-> o, inst |-> i, id |-> cmd.id, command |-> cmd.command,
            kind |-> kind, sock |-> s]
  IN CASE host.out = "throw" ->
            respond(Complete(acc, o, i, s, "throw", host.val), i, o, cmd.id, cmd.command, FALSE,
                    Absent, <<"thrown", host.val>>)
       [] host.out = "ret" ->
            [acc EXCEPT !.ready = Append(@, [p |-> p, val |-> host.val])]
       [] OTHER ->
            [acc EXCEPT !.pending = @ \cup {p}]

\* The callable a command looks up, if any.
Lookup(i, cmd) ==
  LET m == CASE cmd.command = "getCustomProperty" -> properties[i]
             [] cmd.command = "executeCustomAction" -> actions[i]
             [] cmd.command = "executeCustomCommand" -> commands[i]
             [] cmd.command = "tapElement" -> elements[i]
             [] OTHER -> <<>>
  IN IF MapHas(m, cmd.name) THEN MapGet(m, cmd.name) ELSE NoFn

\* getUIElements: the mapped entries
UIElements(els, host) ==
  [j \in 1..Len(els) |->
     [name |-> els[j].name, x |-> host.pos[els[j].name].x,
      y |-> host.pos[els[j].name].y]]

\* getUIElements: does the position getter of some registered element throw?
GetterThrows(i, host) ==
  \E j \in 1..Len(elements[i]) : host.pos[elements[i][j].name].k = "throw"

\* PlayGuardSDK.handleCommand up to its first await
handleCommand(acc, i, s, cmd, host) ==
  LET o == Len(acc.inbound) + 1
      id == cmd.id
      c == cmd.command
      fn == Lookup(i, cmd)
      a0 == [acc EXCEPT !.inbound =
               Append(@, [id |-> id, command |-> c, name |-> cmd.name,
                          sock |-> s, inst |-> i, fn |-> fn,
                          reg |-> lastReg[i],
                          posk |-> IF c = "tapElement" THEN host.pos[cmd.name].k
                                   ELSE IF c = "getUIElements" /\ GetterThrows(i, host)
                                   THEN "throw" ELSE "",
                          frame |-> nId, sends |-> Len(acc.calls)])]
      ret == Complete(a0, o, i, s, "ret", host.val)
      threw == Complete(a0, o, i, s, "throw", host.val)
      els == elements[i]
  IN CASE c = "ping" -> respond(a0, i, o, id, c, TRUE, <<"pong">>, Absent)
       [] c = "listCustomProperties" ->
            respond(a0, i, o, id, c, TRUE, <<"properties", MapKeys(properties[i])>>, Absent)
       [] c = "listCustomActions" ->
            respond(a0, i, o, id, c, TRUE, <<"actions", MapKeys(actions[i])>>, Absent)
       [] c = "listCustomCommands" ->
            respond(a0, i, o, id, c, TRUE, <<"commands", MapKeys(commands[i])>>, Absent)
       [] c = "getCustomProperty" ->
            IF fn = NoFn
            THEN respond(a0, i, o, id, c, FALSE, Absent, <<"Property not found", cmd.name>>)
            ELSE IF host.out = "throw"
            THEN respond(threw, i, o, id, c, FALSE, Absent, <<"thrown", host.val>>)
            ELSE respond(ret, i, o, id, c, TRUE, <<"value", host.val>>, Absent)
       [] c = "executeCustomAction" ->
            IF fn = NoFn
            THEN respond(a0, i, o, id, c, FALSE, Absent, <<"Action not found", cmd.name>>)
            ELSE Await(a0, i, s, o, cmd, host, "action")
       [] c = "executeCustomCommand" ->
            IF fn = NoFn
            THEN respond(a0, i, o, id, c, FALSE, Absent, <<"Command not found", cmd.name>>)
            ELSE Await(a0, i, s, o, cmd, host, "command")
       [] c = "getUIElements" ->
            IF Len(els) = 0
            THEN respond(a0, i, o, id, c, TRUE, <<"elements", <<>>>>, Absent)
            ELSE IF GetterThrows(i, host)
            THEN Reject(threw, o)
            ELSE respond(ret, i, o, id, c, TRUE, <<"elements", UIElements(els, host)>>, Absent)
       [] c = "tapElement" ->
            IF fn = NoFn
            THEN respond(a0, i, o, id, c, FALSE, Absent, <<"Element not registered", cmd.name>>)
            ELSE IF host.pos[cmd.name].k = "throw"
            THEN Reject(threw, o)
            ELSE IF PosMissing(host.pos[cmd.name])
            THEN respond(Complete(a0, o, i, s, "null", ""), i, o, id, c, FALSE, Absent,
                         <<"Element returned null position", cmd.name>>)
            ELSE respond(Tap(ret, o, host, host.pos[cmd.name]), i, o, id, c, TRUE,
                         Absent, Absent)
       [] OTHER -> respond(a0, i, o, id, c, FALSE, Absent, <<"Unknown command", c>>)

\* (mutation of ProcessLines: a line that fails to parse ends the loop)
RECURSIVE ProcessLines_StopsAtMalformed(_, _, _, _, _)
ProcessLines_StopsAtMalformed(acc, i, s, lines, k) ==
  IF k > Len(lines) THEN acc
  ELSE IF IsBlank(lines[k]) THEN ProcessLines_StopsAtMalformed(acc, i, s, lines, k + 1)
  ELSE IF ParseOk(lines[k])
  THEN ProcessLines_StopsAtMalformed(
         handleCommand(acc, i, s, Parsed(lines[k]).doc, Parsed(lines[k]).host),
         i, s, lines, k + 1)
  ELSE acc

\* ws.onmessage: the loop over the lines of a frame
RECURSIVE ProcessLines(_, _, _, _, _)
ProcessLines(acc, i, s, lines, k) ==
  IF k > Len(lines) THEN acc
  ELSE IF IsBlank(lines[k]) THEN ProcessLines(acc, i, s, lines, k + 1)
  ELSE IF ParseOk(lines[k])
  THEN ProcessLines(handleCommand(acc, i, s, Parsed(lines[k]).doc, Parsed(lines[k]).host),
                    i, s, lines, k + 1)
  ELSE ProcessLines(acc, i, s, lines, k + 1)

\* The microtasks queued by `await` on a callable that returned: each
\* resumes its handleCommand when the frame's loop has ended.
RECURSIVE RunReady(_, _, _)
RunReady(acc, i, k) ==
  IF k > Len(acc.ready) THEN acc
  ELSE RunReady(Resume(acc, i, acc.ready[k].p, "resolve", acc.ready[k].val), i, k + 1)

\* The ids of the documents that stand alone on a line of the frame.
SameLine(text, p, q) ==
  \A r \in 1..Len(text) : (r >= p /\ r <= q) \/ (r >= q /\ r <= p) => text[r].t # "nl"

Alone(text, p) ==
  /\ text[p].t = "json"
  /\ \A q \in 1..Len(text) : q # p /\ SameLine(text, p, q) => text[q].t = "sp"

RECURSIVE AloneIdsFrom(_, _)
AloneIdsFrom(text, p) ==
  IF p > Len(text) THEN <<>>
  ELSE IF Alone(text, p) THEN <<text[p].doc.id>> \o AloneIdsFrom(text, p + 1)
  ELSE AloneIdsFrom(text, p + 1)

AloneIds(text) == AloneIdsFrom(text, 1)

\* What each line of a frame is, read off the positions of its newlines.
LineEnd(text, p) ==
  CHOOSE q \in p..(Len(text) + 1) :
    /\ q = Len(text) + 1 \/ text[q].t = "nl"
    /\ \A r \in p..(q - 1) : text[r].t # "nl"

LineKind(text, p) ==
  LET body == {r \in p..(LineEnd(text, p) - 1) : text[r].t # "sp"}
  IN IF body = {} THEN "blank"
     ELSE IF Cardinality(body) = 1 /\ \A r \in body : text[r].t = "json"
     THEN "good"
     ELSE "bad"

RECURSIVE LineKindsFrom(_, _)
LineKindsFrom(text, p) ==
  <<LineKind(text, p)>> \o
    (IF LineEnd(text, p) > Len(text) THEN <<>>
     ELSE LineKindsFrom(text, LineEnd(text, p) + 1))

LineKinds(text) == LineKindsFrom(text, 1)

\* ws.onmessage for a text frame arriving on open socket s
onmessage(s, frame) ==
  /\ sockState[s] = "OPEN"
  /\ Exists(sockOwner[s])
  /\ nId + NJson(frame) <= MaxCmds
  /\ LET i == sockOwner[s]
         text == WithIds(frame, nId)
         acc0 == [wire |-> wire, calls |-> calls, pending |-> pending,
                  inbound |-> inbound, completed |-> completed,
                  rejected |-> rejected, ready |-> <<>>,
                  injected |-> injected, lastTap |-> lastTap]
         acc == RunReady(ProcessLines(acc0, i, s, Split(text), 1), i, 1)
     IN /\ wire' = acc.wire
        /\ calls' = acc.calls
        /\ pending' = acc.pending
        /\ inbound' = acc.inbound
        /\ completed' = acc.completed
        /\ rejected' = acc.rejected
        /\ expect' = expect \o AloneIds(text)
        /\ lastLines' = LineKinds(text)
        /\ injected' = acc.injected
        /\ lastTap' = acc.lastTap
        /\ nId' = nId + NJson(frame)
  /\ UNCHANGED <<ivars, tvars, rvars, hvars, pvars>>

\* A promise an action or command handler returned settles, and the
\* handleCommand awaiting it resumes.
Settle(p, out, val) ==
  /\ p \in pending
  /\ LET acc0 == [wire |-> wire, calls |-> calls, pending |-> pending \ {p},
                  inbound |-> inbound, completed |-> completed,
                  rejected |-> rejected, ready |-> <<>>,
                  injected |-> injected, lastTap |-> lastTap]
         acc == Resume(acc0, p.inst, p, out, val)
     IN /\ wire' = acc.wire
        /\ calls' = acc.calls
        /\ pending' = acc.pending
        /\ completed' = acc.completed
        /\ rejected' = acc.rejected
  /\ UNCHANGED <<inbound, expect, nId, lastLines, injected, lastTap>>
  /\ UNCHANGED <<ivars, tvars, rvars, hvars, pvars>>

\* A pointer-down of the user at (x, y), on the page and with the element
\* positions that `host` gives.
pointerdown(x, y, host) ==
  /\ Len(calls) < MaxSend
  /\ LET acc0 == [wire |-> wire, calls |-> calls, pending |-> pending,
                  inbound |-> inbound, completed |-> completed,
                  rejected |-> rejected, ready |-> <<>>,
                  injected |-> injected, lastTap |-> lastTap]
         acc == RunListeners(acc0, listeners, 1, x, y, host)
     IN /\ wire' = acc.wire
        /\ calls' = acc.calls
        /\ lastTap' = acc.lastTap
  /\ UNCHANGED <<pending, inbound, completed, rejected, expect, nId, lastLines, injected>>
  /\ UNCHANGED <<ivars, tvars, rvars, hvars, pvars>>

\* PlayGuardSDK.notifyTapped(name), of the explicit-notification build
notifyTapped(i, name) ==
  /\ Exists(i)
  /\ variant = "explicit"
  /\ Len(calls) < MaxSend
  /\ LET acc0 == [wire |-> wire, calls |-> calls]
         acc == sendEvent(acc0, i, "elementTapped", <<"tap", name, "explicit", <<>>>>)
     IN wire' = acc.wire /\ calls' = acc.calls
  /\ UNCHANGED <<ivars, tvars, rvars, dvars, hvars, pvars>>

\* ------------------------------------------------------------- singleton

\* PlayGuardSDK.getInstance(options): constructs the instance when none is
\* held; the constructor calls wsClient.connect() when autoConnect is set
getInstance(autoConnect) ==
  IF _instance = NULL
  THEN /\ nInst < MaxInst
       /\ nInst' = nInst + 1
       /\ _instance' = nInst + 1
       /\ IF autoConnect /\ ConnectGuard(nInst + 1)
          THEN ConnectEffect(nInst + 1, "lateConnect")
          ELSE UNCHANGED <<nSock, sockState, sockOwner, ws, notes>>
       /\ UNCHANGED <<reconnectTimer, connected, destroyed, sockErrored, timers>>
       /\ UNCHANGED <<urlOk, wvars, rvars, dvars, pvars>>
  ELSE UNCHANGED vars

\* PlayGuardSDK.destroy()
\* PlayGuardSDK.destroy: is the pointer listener to be removed?
Removes(i) == variant = "pointer" /\ clickMonitoringActive[i]

PlayGuardSDK_destroy(i) ==
  /\ Exists(i)
  /\ listeners' = IF Removes(i) THEN RemoveListener(listeners, i) ELSE listeners
  /\ clickMonitoringActive' =
       IF Removes(i) THEN [clickMonitoringActive EXCEPT ![i] = FALSE]
       ELSE clickMonitoringActive
  /\ DestroyEffect(i)
  /\ _instance' = NULL
  /\ UNCHANGED <<nInst, urlOk, variant>>
  /\ UNCHANGED <<wvars, rvars, dvars, hvars>>

\* ----------------------------------------------------- specifications

\* Nothing constructed: the class is loaded, PlayGuardSDK._instance is null.
InitStatic ==
  /\ variant = "pointer"
  /\ _instance = NULL
  /\ nInst = 0
  /\ urlOk = [i \in Instances |-> TRUE]
  /\ ws = [i \in Instances |-> NULL]
  /\ reconnectTimer = [i \in Instances |-> NULL]
  /\ connected = [i \in Instances |-> FALSE]
  /\ destroyed = [i \in Instances |-> FALSE]
  /\ sockState = [s \in SockIds |-> "NONE"]
  /\ sockOwner = [s \in SockIds |-> NULL]
  /\ sockErrored = {}
  /\ nSock = 0
  /\ timers = {}
  /\ properties = [i \in Instances |-> <<>>]
  /\ actions = [i \in Instances |-> <<>>]
  /\ commands = [i \in Instances |-> <<>>]
  /\ elements = [i \in Instances |-> <<>>]
  /\ pending = {}
  /\ wire = <<>>
  /\ calls = <<>>
  /\ inbound = <<>>
  /\ completed = {}
  /\ rejected = {}
  /\ expect = <<>>
  /\ nId = 0
  /\ lastLines = <<>>
  /\ lastReg = [i \in Instances |-> [k \in MapKinds |-> [n \in Names |-> NoFn]]]
  /\ nReg = 0
  /\ notes = {}
  /\ clickMonitoringActive = [i \in Instances |-> FALSE]
  /\ listeners = <<>>
  /\ injected = <<>>
  /\ lastTap = [i \in Instances |-> NoTap]

\* State after `new WSClient(url, reconnectDelay)`: one client, not connected,
\* whose url the WebSocket constructor accepts or rejects.
InitT ==
  /\ variant = "pointer"
  /\ _instance = NULL
  /\ nInst = 1
  /\ urlOk \in {[i \in Instances |-> i # 1 \/ b] : b \in BOOLEAN}
  /\ ws = [i \in Instances |-> NULL]
  /\ reconnectTimer = [i \in Instances |-> NULL]
  /\ connected = [i \in Instances |-> FALSE]
  /\ destroyed = [i \in Instances |-> FALSE]
  /\ sockState = [s \in SockIds |-> "NONE"]
  /\ sockOwner = [s \in SockIds |-> NULL]
  /\ sockErrored = {}
  /\ nSock = 0
  /\ timers = {}
  /\ properties = [i \in Instances |-> <<>>]
  /\ actions = [i \in Instances |-> <<>>]
  /\ commands = [i \in Instances |-> <<>>]
  /\ elements = [i \in Instances |-> <<>>]
  /\ pending = {}
  /\ wire = <<>>
  /\ calls = <<>>
  /\ inbound = <<>>
  /\ completed = {}
  /\ rejected = {}
  /\ expect = <<>>
  /\ nId = 0
  /\ lastLines = <<>>
  /\ lastReg = [i \in Instances |-> [k \in MapKinds |-> [n \in Names |-> NoFn]]]
  /\ nReg = 0
  /\ notes = {}
  /\ clickMonitoringActive = [i \in Instances |-> FALSE]
  /\ listeners = <<>>
  /\ injected = <<>>
  /\ lastTap = [i \in Instances |-> NoTap]

\* State after the first `PlayGuardSDK.getInstance()` with default options,
\* in build v: instance 1 holds socket 1, which is connecting.
InitBridge(v) ==
  /\ variant = v
  /\ _instance = 1
  /\ nInst = 1
  /\ urlOk = [i \in Instances |-> TRUE]
  /\ ws = [i \in Instances |-> IF i = 1 THEN 1 ELSE NULL]
  /\ reconnectTimer = [i \in Instances |-> NULL]
  /\ connected = [i \in Instances |-> FALSE]
  /\ destroyed = [i \in Instances |-> FALSE]
  /\ sockState = [s \in SockIds |-> IF s = 1 THEN "CONNECTING" ELSE "NONE"]
  /\ sockOwner = [s \in SockIds |-> IF s = 1 THEN 1 ELSE NULL]
  /\ sockErrored = {}
  /\ nSock = 1
  /\ timers = {}
  /\ properties = [i \in Instances |-> <<>>]
  /\ actions = [i \in Instances |-> <<>>]
  /\ commands = [i \in Instances |-> <<>>]
  /\ elements = [i \in Instances |-> <<>>]
  /\ pending = {}
  /\ wire = <<>>
  /\ calls = <<>>
  /\ inbound = <<>>
  /\ completed = {}
  /\ rejected = {}
  /\ expect = <<>>
  /\ nId = 0
  /\ lastLines = <<>>
  /\ lastReg = [i \in Instances |-> [k \in MapKinds |-> [n \in Names |-> NoFn]]]
  /\ nReg = 0
  /\ notes = {}
  /\ clickMonitoringActive = [i \in Instances |-> FALSE]
  /\ listeners = <<>>
  /\ injected = <<>>
  /\ lastTap = [i \in Instances |-> NoTap]

\* State after the first `PlayGuardSDK.getInstance()` of the pointer-listener
\* build and of the explicit-notification build
InitSDK == InitBridge("pointer")

InitExplicit == InitBridge("explicit")

\* The transport alone: every operation and event of a WSClient.
NextT ==
  \/ \E i \in Instances : connect(i)
  \/ \E s \in SockIds : onopen(s)
  \/ \E s \in SockIds : onclose(s)
  \/ \E s \in SockIds : onerror(s)
  \/ \E t \in SockIds : TimerFire(t)
  \/ \E i \in Instances : WSClient_destroy(i)
  \/ \E i \in Instances : send(i)

SpecT == InitT /\ [][NextT]_vars

\* The reconnect delay elapses: a pending setTimeout callback is eventually run
\* by the event loop. Nothing obliges the host or the network to act.
FairT == WF_vars(\E t \in SockIds : TimerFire(t))

LiveT == InitT /\ [][NextT]_vars /\ FairT

\* The singleton accessor: getInstance and destroy on any instance the host
\* still holds, with the socket events of every instance.
NextS ==
  \/ \E ac \in BOOLEAN : getInstance(ac)
  \/ \E i \in Instances : PlayGuardSDK_destroy(i)
  \/ \E s \in SockIds : onopen(s)
  \/ \E s \in SockIds : onclose(s)
  \/ \E t \in SockIds : TimerFire(t)

SpecS == InitStatic /\ [][NextS]_vars

\* The dispatcher of one bridge instance under concurrent commands: the
\* documents the controller sends, each with what the host callable it
\* reaches does when invoked.
DocsD ==
  {J("ping", "", NoHost)}
  \cup {J("executeCustomCommand", "a", Host(o, "v1", PosNull)) : o \in {"ret", "throw", "async"}}
  \cup {J("executeCustomCommand", "a", Host("ret", "circ", PosNull))}

\* Frames of one line, and of two lines of which the first awaits a handler.
FramesD ==
  {<<d>> : d \in DocsD}
  \cup {<<d1, TokNl, d2>> :
          d1 \in {d \in DocsD : d.doc.command = "executeCustomCommand"},
          d2 \in {d \in DocsD : d.doc.command \in {"ping", "executeCustomCommand"}}}

\* (the host registers its command once)
NextD ==
  \/ \E s \in SockIds : onopen(s)
  \/ \E s \in SockIds : onclose(s)
  \/ \E t \in SockIds : nSock <= MaxReconnects /\ TimerFire(t)
  \/ PlayGuardSDK_destroy(1)
  \/ ~MapHas(commands[1], "a") /\ registerCommand(1, "a", "f")
  \/ \E s \in SockIds, f \in FramesD : onmessage(s, f)
  \/ \E p \in pending, o \in {"resolve", "reject"} : Settle(p, o, "v1")

SpecD == InitSDK /\ [][NextD]_vars

\* The dispatcher of one bridge instance over every kind of host callable.
DocsH ==
  {J("getCustomProperty", "a", Host(o, "v1", PosNull)) : o \in {"ret", "throw"}}
  \cup {J("executeCustomAction", n, Host(o, "v1", PosNull)) :
          n \in {"a", "b"}, o \in {"ret", "throw", "async"}}
  \cup {J("executeCustomCommand", "a", Host(o, "v1", PosNull)) : o \in {"ret", "throw", "async"}}
  \cup {J("getUIElements", "", Host("ret", "", pa)) : pa \in {PosAt(1, 1), PosNull, PosThrow}}
  \cup {J("tapElement", n, Host("ret", "", pa)) :
          n \in {"a", "b"}, pa \in {PosAt(1, 1), PosNull, PosThrow}}

FramesH == {<<d>> : d \in DocsH}

NextH ==
  \/ \E s \in SockIds : onopen(s)
  \/ \E s \in SockIds : onclose(s)
  \/ \E t \in SockIds : nSock <= MaxReconnects /\ TimerFire(t)
  \/ PlayGuardSDK_destroy(1)
  \/ registerProperty(1, "a", "f")
  \/ registerAction(1, "a", "f")
  \/ registerCommand(1, "a", "f")
  \/ registerElement(1, "a", "f")
  \/ \E s \in SockIds, f \in FramesH : onmessage(s, f)
  \/ \E p \in pending, o \in {"resolve", "reject"} : Settle(p, o, "v1")

SpecH == InitSDK /\ [][NextH]_vars

\* Framing: every text frame of up to MaxFrameLen characters, each a newline,
\* a blank, a character that is no JSON, or a ping document, while the
\* controller has commands left to send.
TokensF == {TokNl, TokSp, TokX, J("ping", "", NoHost)}

FramesF == UNION {[1..n -> TokensF] : n \in 0..MaxFrameLen}

NextF ==
  \/ \E s \in SockIds : onopen(s)
  \/ \E s \in SockIds, f \in FramesF : nId < MaxCmds /\ onmessage(s, f)

SpecF == InitSDK /\ [][NextF]_vars

\* Command handlers and their values: a handler returns a value or a promise
\* that settles later, while the host registers the name again.
ValuesV == {"v1", "nan", "undef"}

DocsV ==
  {J("executeCustomCommand", "a", Host("ret", v, PosNull)) : v \in ValuesV}
  \cup {J("executeCustomCommand", "a", Host("async", "", PosNull))}

NextV ==
  \/ \E s \in SockIds : onopen(s)
  \/ registerCommand(1, "a", Callable(nReg + 1))
  \/ \E s \in SockIds, d \in DocsV : onmessage(s, <<d>>)
  \/ \E p \in pending, v \in ValuesV : Settle(p, "resolve", v)
  \/ \E p \in pending : Settle(p, "reject", "v1")

SpecV == InitSDK /\ [][NextV]_vars

\* tapElement: the controller taps a name, registered or not, whose getter gives
\* a position or null, on a page that has a node, the canvas or nothing there.
PagesI == {[pt \in {<<1, 1>>} |-> nd] : nd \in {"btn", "canvas", NoNode}}

DocsI ==
  {J("tapElement", n, HostOn("ret", "", [m \in Names |-> pa], pg)) :
     n \in Names, pa \in {PosAt(1, 1), PosNull}, pg \in PagesI}

NextI ==
  \/ \E s \in SockIds : onopen(s)
  \/ \E n \in Names : registerElement(1, n, Callable(nReg + 1))
  \/ \E s \in SockIds, d \in DocsI : onmessage(s, <<d>>)

SpecI == InitSDK /\ [][NextI]_vars

\* The opaque surface: every point of the page is the canvas; the user taps
\* once, at one of a few points, while each element's getter gives one of a few
\* positions, or null.
TapsC == {<<100, 120>>, <<100, 170>>, <<100, 180>>}

PositionsC ==
  {PosAt(100, 100), PosAt(100, 140), PosAt(100, 155), PosAt(121, 148), PosNull}

CanvasPage == [pt \in TapsC |-> "canvas"]

HostsC ==
  {HostOn("ret", "", [n \in Names |-> IF n = "a" THEN pa ELSE pb], CanvasPage) :
     pa \in PositionsC, pb \in PositionsC}

NextC ==
  \/ \E s \in SockIds : onopen(s)
  \/ \E s \in SockIds : onclose(s)
  \/ \E n \in Names : registerElement(1, n, Callable(nReg + 1))
  \/ \E pt \in TapsC, h \in HostsC :
       ~lastTap[1].seen /\ pointerdown(pt[1], pt[2], h)

SpecC == InitSDK /\ [][NextC]_vars

\* The rendered page: two points, each showing any node, the canvas or
\* nothing; the user taps once, at one of them, while each element's getter
\* gives one of them, or null.
PointsO == {<<1, 1>>, <<2, 2>>}

PagesO == [PointsO -> Nodes \cup {NoNode}]

PositionsO == {PosAt(pt[1], pt[2]) : pt \in PointsO} \cup {PosNull}

HostsO ==
  {HostOn("ret", "", [n \in Names |-> IF n = "a" THEN pa ELSE pb], page) :
     pa \in PositionsO, pb \in PositionsO, page \in PagesO}

NextO ==
  \/ \E s \in SockIds : onopen(s)
  \/ \E s \in SockIds : onclose(s)
  \/ \E n \in Names : registerElement(1, n, Callable(nReg + 1))
  \/ \E pt \in PointsO, h \in HostsO :
       ~lastTap[1].seen /\ pointerdown(pt[1], pt[2], h)

SpecO == InitSDK /\ [][NextO]_vars

\* Frames of two lines: commands answered at once or after an awaited
\* handler, in every pairing; and a ping alone.
DocsL ==
  {J(c, "", NoHost) : c \in {"ping", "bogus"}}
  \cup {J("executeCustomAction", "a", Host(o, "v1", PosNull)) : o \in {"ret", "throw", "async"}}
  \cup {J("getUIElements", "", Host("ret", "", pa)) : pa \in {PosAt(1, 1), PosThrow}}
  \cup {J("tapElement", "a", Host("ret", "", pa)) : pa \in {PosAt(1, 1), PosNull}}

FramesL ==
  {<<J("ping", "", NoHost)>>} \cup {<<d1, TokNl, d2>> : d1 \in DocsL, d2 \in DocsL}

NextL ==
  \/ \E s \in SockIds : onopen(s)
  \/ registerAction(1, "a", "f")
  \/ registerElement(1, "a", "h")
  \/ \E s \in SockIds, f \in FramesL : onmessage(s, f)
  \/ \E p \in pending, o \in {"resolve", "reject"} : Settle(p, o, "v1")

SpecL == InitSDK /\ [][NextL]_vars

\* The explicit-notification build: the host registers elements and reports
\* taps itself, the user taps the page, the socket opens, closes and is
\* reopened by the reconnect timer.
NextX ==
  \/ \E s \in SockIds : onopen(s)
  \/ \E s \in SockIds : onclose(s)
  \/ \E t \in SockIds : TimerFire(t)
  \/ \E n \in Names : registerElement(1, n, Callable(nReg + 1))
  \/ \E pt \in TapsC, h \in HostsC : pointerdown(pt[1], pt[2], h)
  \/ \E n \in Names : notifyTapped(1, n)

SpecX == InitExplicit /\ [][NextX]_vars

\* The life of the pointer listener: the host registers elements on, and
\* destroys, any instance it still holds, and asks for the instance again.
NextM ==
  \/ \E ac \in BOOLEAN : getInstance(ac)
  \/ \E i \in Instances, n \in Names : registerElement(i, n, Callable(nReg + 1))
  \/ \E i \in Instances : PlayGuardSDK_destroy(i)
  \/ \E s \in SockIds : onopen(s)
  \/ \E s \in SockIds : onclose(s)

SpecM == InitSDK /\ [][NextM]_vars

\* The registry: the host registers names in any of the four maps, each call
\* passing a callable of its own (Callable), and the controller then lists
\* and looks up.
DocsR ==
  {J(c, "", NoHost) : c \in {"listCustomProperties", "listCustomActions", "listCustomCommands"}}
  \cup {J("getUIElements", "", Host("ret", "", PosAt(1, 1))),
        J("getCustomProperty", "a", Host("ret", "v1", PosNull)),
        J("executeCustomAction", "a", Host("throw", "v1", PosNull)),
        J("executeCustomCommand", "a", Host("throw", "v1", PosNull)),
        J("tapElement", "a", Host("ret", "", PosAt(1, 1)))}

NextR ==
  \/ \E s \in SockIds : onopen(s)
  \/ \E n \in Names : Len(inbound) = 0 /\ registerProperty(1, n, Callable(nReg + 1))
  \/ \E n \in Names : Len(inbound) = 0 /\ registerAction(1, n, Callable(nReg + 1))
  \/ \E n \in Names : Len(inbound) = 0 /\ registerCommand(1, n, Callable(nReg + 1))
  \/ \E n \in Names : Len(inbound) = 0 /\ registerElement(1, n, Callable(nReg + 1))
  \/ \E s \in SockIds, d \in DocsR : onmessage(s, <<d>>)

SpecR == InitSDK /\ [][NextR]_vars

\* ---------------------------------------------------------------- claims

Responses == {k \in 1..Len(wire) : wire[k].msg.type = "response"}

\* C1: at most one response carrying a command's id is ever written, however
\* commands, handler completions, disconnects and reconnects interleave.
C1_AtMostOneResponse ==
  \A j \in Responses, k \in Responses : wire[j].msg.id = wire[k].msg.id => j = k

\* Two commands were outstanding together and answered out of arrival order,
\* one of them through the catch branch after a first respond() had thrown.
C1_Witness ==
  /\ Len(inbound) = 2
  /\ Len(wire) = 2
  /\ wire[1].msg.id = 2
  /\ wire[2].msg.id = 1
  /\ \E j \in 1..Len(calls), k \in 1..Len(calls) :
       j < k /\ calls[j].origin = calls[k].origin /\ calls[j].origin # 0

\* C2: every response written echoes the id and the command of the inbound
\* command whose dispatch produced it.
C2_EchoesOwnRequest ==
  \A k \in Responses :
    LET o == calls[wire[k].call].origin
    IN /\ o \in 1..Len(inbound)
       /\ wire[k].msg.id = inbound[o].id
       /\ wire[k].msg.command = inbound[o].command

\* Two different commands outstanding together, the later answered first.
C2_Witness ==
  /\ Len(wire) = 2
  /\ wire[1].msg.id = 2
  /\ wire[2].msg.id = 1
  /\ wire[1].msg.command = "ping"
  /\ wire[2].msg.command = "executeCustomCommand"

\* C3: once the host callable a command invoked has finished while the
\* connection the command arrived on stayed open, a response with the
\* command's id has been sent.
C3_CompletedIsAnswered ==
  \A c \in completed :
    c.stayed => \E k \in Responses : wire[k].msg.id = inbound[c.origin].id

\* C7: a message is on the wire at most once, and only when at the moment of
\* its send() call the client's current socket was open, on that socket; a
\* message dropped by its send() call is never written.
C7_SendAtMostOnceIfOpen ==
  /\ \A j \in 1..Len(wire), k \in 1..Len(wire) : wire[j].call = wire[k].call => j = k
  /\ \A k \in 1..Len(wire) :
       /\ wire[k].call \in 1..Len(calls)
       /\ calls[wire[k].call].state = "OPEN"
       /\ calls[wire[k].call].ws = wire[k].sock
       /\ calls[wire[k].call].msg = wire[k].msg

\* A handler finished after destroy(): its response was passed to send() and
\* is not on the wire, while an earlier response is; and the bridge has
\* reconnected since its first socket.
C7_Witness ==
  /\ \E k \in 1..Len(calls) :
       /\ calls[k].dead
       /\ calls[k].origin # 0
       /\ \A j \in 1..Len(wire) : wire[j].call # k
  /\ Len(wire) >= 1
  /\ nSock >= 2

\* ---- transport lifecycle ----

\* C4: once destroy() has been called on a client, no step opens a socket for
\* it: not a later connect(), not a reconnect timer that was still pending.
C4_NoSocketAfterDestroy ==
  [][\A s \in SockIds :
       (sockState[s] = "NONE" /\ sockState'[s] # "NONE")
         => ~destroyed[sockOwner'[s]]]_vars

\* a destroyed client on which connect() was called and on which a reconnect
\* timer, whose handle destroy() could not clear, has fired
C4_Witness ==
  /\ destroyed[1]
  /\ <<1, "lateConnect">> \in notes
  /\ <<1, "lateTimer">> \in notes

\* the client has tried to connect and now holds no socket
Disconnected(i) ==
  /\ ~destroyed[i]
  /\ ws[i] = NULL
  /\ (<<i, "throw">> \in notes \/ \E s \in SockIds : sockOwner[s] = i)

\* C5: whenever a client that is not destroyed is left without a socket after
\* an attempt, it later holds a new socket, unless it is destroyed first (or
\* the model's supply of sockets is used up).
C5_RetryFollows ==
  \A i \in Instances :
    Disconnected(i) ~> (ws[i] # NULL \/ destroyed[i] \/ nSock = MaxSock)

\* C6: no client has two sockets that are connecting or open at once.
C6_OneLiveSocket ==
  \A i \in Instances :
    Cardinality({s \in SockIds : sockOwner[s] = i /\ Live(s)}) <= 1
\* ---- singleton ----

\* bridge instances constructed and not destroyed
LiveInstances == {i \in 1..nInst : ~destroyed[i]}

\* C8: at most one bridge instance that has not been destroyed exists, and it
\* is the one getInstance() returns.
C8_OneLiveInstance ==
  /\ Cardinality(LiveInstances) <= 1
  /\ \A i \in LiveInstances : _instance = i
\* ---- framing ----

\* C9: the commands handed to the dispatcher are, in order and once each, the
\* documents that stand alone on a line of the frames received; blank lines
\* and lines that are no JSON hand over nothing and end nothing.
C9_DeliversWellFormedLines ==
  [k \in 1..Len(inbound) |-> inbound[k].id] = expect

\* the latest frame had a malformed, a blank and then a well-formed line, whose
\* document (id 2) was dispatched and answered; document 1, which came on a
\* malformed line, was not dispatched
C9_Witness ==
  /\ lastLines = <<"bad", "blank", "good">>
  /\ nId = 2
  /\ Len(inbound) = 1
  /\ inbound[1].id = 2
  /\ \E k \in Responses : wire[k].msg.id = 2
\* ---- registry ----

\* the map a command lists or looks up in
KindOf(command) ==
  CASE command \in {"listCustomProperties", "getCustomProperty"} -> "properties"
    [] command \in {"listCustomActions", "executeCustomAction"} -> "actions"
    [] command \in {"listCustomCommands", "executeCustomCommand"} -> "commands"
    [] OTHER -> "elements"

Listings == {"listCustomProperties", "listCustomActions", "listCustomCommands", "getUIElements"}
Lookups == {"getCustomProperty", "executeCustomAction", "executeCustomCommand", "tapElement"}

\* the names a listing response carries, in its order
Listed(msg) ==
  IF msg.command = "getUIElements"
  THEN [j \in 1..Len(msg.data[2]) |-> msg.data[2][j].name]
  ELSE msg.data[2]

MapOf(i, kind) ==
  CASE kind = "properties" -> properties[i]
    [] kind = "actions" -> actions[i]
    [] kind = "commands" -> commands[i]
    [] OTHER -> elements[i]

Fault(o) ==
  \/ inbound[o].command \notin (Listings \cup Lookups \cup {"ping"})
  \/ inbound[o].command \in Lookups /\ inbound[o].fn = NoFn
  \/ \E d \in completed : d.origin = o /\ d.how \in {"throw", "reject", "null"}

\* C11: a response reports failure, with an error and without data, exactly
\* when its dispatch hit a fault, and otherwise reports success without an
\* error; and no dispatch ends with an exception leaving the dispatcher.
C11_FailureIffFault ==
  /\ \A k \in Responses :
       LET m == wire[k].msg
       IN /\ m.success <=> ~Fault(calls[wire[k].call].origin)
          /\ m.success => m.error = Absent
          /\ ~m.success => (m.error # Absent /\ m.data = Absent)
  /\ rejected = {}
\* ---- value of a command ----

\* the data that carries value v
DataOf(v) == IF v = "undef" THEN Absent ELSE <<"val", v>>

\* C12: a success response to executeCustomCommand carries exactly the value
\* that the handler registered under the name when the command was dispatched
\* returned or resolved to.
C12_CommandValueVerbatim ==
  \A k \in Responses :
    LET o == calls[wire[k].call].origin
    IN (wire[k].msg.command = "executeCustomCommand" /\ wire[k].msg.success) =>
         /\ inbound[o].fn # NoFn
         /\ inbound[o].fn = inbound[o].reg["commands"][inbound[o].name]
         /\ \E d \in completed :
              d.origin = o /\ d.how = "resolve" /\ wire[k].msg.data = DataOf(d.val)
\* ---- tapElement ----

\* dispatch o is a tapElement whose name is not registered or whose position
\* getter returned null
TapRefused(o) ==
  /\ inbound[o].command = "tapElement"
  /\ \/ inbound[o].reg["elements"][inbound[o].name] = NoFn
     \/ inbound[o].posk = "null"

\* C13: a tapElement for a name that is not registered, or whose position
\* getter returns null, is answered with success false and dispatches no
\* synthetic event.
C13_RefusedTapInjectsNothing ==
  \A o \in 1..Len(inbound) :
    TapRefused(o) =>
      /\ \E k \in Responses : calls[wire[k].call].origin = o
      /\ \A k \in Responses : calls[wire[k].call].origin = o => ~wire[k].msg.success
      /\ \A j \in 1..Len(injected) : injected[j].origin # o

\* a tap on an unregistered name and a tap on a registered element whose getter
\* gave null were both answered, on a page with a node at the point
C13_Witness ==
  /\ Len(inbound) = 2
  /\ inbound[1].fn = NoFn /\ TapRefused(1)
  /\ inbound[2].fn # NoFn /\ TapRefused(2)
  /\ \E d \in completed : d.origin = 2 /\ d.how = "null"
  /\ Len(wire) = 2
  /\ injected = <<>>
\* ---- taps on the opaque surface ----

\* the latest pointer-down instance i handled was on the canvas at (x, y), with
\* one element at (100,100) and the other at (100,140)
TwoElementsTapped(i, x, y) ==
  /\ lastTap[i].seen
  /\ lastTap[i].tapped = "canvas"
  /\ lastTap[i].x = x /\ lastTap[i].y = y
  /\ Len(lastTap[i].els) = 2
  /\ {lastTap[i].els[1].pos, lastTap[i].els[2].pos} = {PosAt(100, 100), PosAt(100, 140)}

\* the events of the latest pointer-down of i are one event naming element k
NamesOnly(i, k) ==
  /\ Len(lastTap[i].sent) = 1
  /\ lastTap[i].sent[1][2] = lastTap[i].els[k].name
  /\ lastTap[i].sent[1][3] = "canvas"

EventCalls == {k \in 1..Len(calls) : calls[k].msg.type = "event"}

\* C15: in the explicit-notification build no pointer listener is ever
\* installed and no pointer-down is handled, so the only elementTapped events
\* are those of notifyTapped: each call hands over one event with matchType
\* "explicit" and its name, which is written once when the client is connected
\* (its socket open) at the call and not at all otherwise.
C15_ExplicitOnly ==
  /\ listeners = <<>>
  /\ \A i \in Instances : ~clickMonitoringActive[i] /\ ~lastTap[i].seen
  /\ \A i \in Instances : Exists(i) => (isConnected(i) <=> ReadyState(i) = "OPEN")
  /\ \A k \in EventCalls :
       /\ calls[k].msg.command = "elementTapped"
       /\ calls[k].msg.data[2] \in Names
       /\ calls[k].msg.data[3] = "explicit"
       /\ Cardinality({w \in 1..Len(wire) : wire[w].call = k}) =
            (IF calls[k].state = "OPEN" THEN 1 ELSE 0)
       /\ \A w \in 1..Len(wire) :
            wire[w].call = k => wire[w].msg = Stringify(calls[k].msg)
  /\ \A w \in 1..Len(wire) : wire[w].call \in EventCalls

\* elements are registered; one notifyTapped came while disconnected and was
\* dropped, a later one while connected and was written
C15_Witness ==
  /\ variant = "explicit"
  /\ Len(elements[1]) = 2
  /\ Len(calls) = 2
  /\ calls[1].state # "OPEN" /\ calls[2].state = "OPEN"
  /\ Len(wire) = 1
  /\ wire[1].call = 2
  /\ wire[1].msg.data = <<"tap", "b", "explicit", <<>>>>
\* ---- reconnect timers and teardown of the transport ----

\* the reconnect timers of client i that are armed and have not fired
PendingTimers(i) == {t \in timers : sockOwner[t] = i}

\* C16: at most one reconnect attempt of a client is pending at any time.
C16_OneTimerPending ==
  \A i \in Instances : Cardinality(PendingTimers(i)) <= 1
\* C17: once a client is destroyed it reports not connected and holds no
\* socket, in every later state.
C17_DestroyedIsClosed ==
  \A i \in Instances : destroyed[i] => ~isConnected(i) /\ ws[i] = NULL
\* ---- the life of the pointer listener ----

\* how many times the pointer-down listener of instance i is installed
Installed(i) == Len(SelectSeq(listeners, LAMBDA j : j = i))

\* C18: the listener of an instance is installed at most once; it is not
\* installed before the first registerElement nor after destroy(), and it is
\* installed in every state from the first registerElement until destroy().
C18_IdleOrMonitoring ==
  \A i \in Instances :
    /\ Installed(i) <= 1
    /\ elements[i] = <<>> => Installed(i) = 0
    /\ destroyed[i] => Installed(i) = 0
    /\ elements[i] # <<>> /\ ~destroyed[i] => Installed(i) = 1
\* ---- taps on rendered nodes ----

\* node a is a proper ancestor of node b in the document
Above(a, b) == a # NoNode /\ a \in {ParentOf[b], ParentOf[ParentOf[b]]}

\* element k, as the latest pointer-down of i saw it, has a position that
\* resolves to a non-opaque node equal to, containing or contained by the
\* tapped node
DomCandidate(i, k) ==
  LET e == lastTap[i].els[k]
  IN /\ e.pos.k = "pos"
     /\ e.at \notin {NoNode, "canvas"}
     /\ e.at = lastTap[i].tapped \/ Above(e.at, lastTap[i].tapped)
          \/ Above(lastTap[i].tapped, e.at)

DomCandidates(i) == {k \in 1..Len(lastTap[i].els) : DomCandidate(i, k)}

\* C19: a pointer-down on a non-opaque node emits at most one elementTapped
\* event, of matchType "dom", naming the first element in registration order
\* whose position is non-null and resolves to a non-opaque node that equals,
\* contains or is contained by the tapped node; none is emitted when no element
\* qualifies or when the tapped point resolves to no node.
C19_DomFirstRelated ==
  \A i \in Instances :
    LET t == lastTap[i]
        M == DomCandidates(i)
        first == CHOOSE k \in M : \A j \in M : k <= j
    IN t.seen =>
         /\ t.tapped = NoNode => t.sent = <<>>
         /\ t.tapped \notin {NoNode, "canvas"} =>
              IF M = {} THEN t.sent = <<>>
              ELSE /\ t.sent = <<<<"tap", t.els[first].name, "dom",
                                   <<t.x, t.y, t.els[first].pos.x, t.els[first].pos.y>>>>>>
                   /\ calls[Len(calls)].msg.command = "elementTapped"
                   /\ calls[Len(calls)].msg.data = t.sent[1]

\* a tap on the icon; the first element has no position, the second resolves
\* to the root, which contains the icon: the event names the second
C19_Witness ==
  /\ lastTap[1].seen
  /\ lastTap[1].tapped = "icon"
  /\ Len(lastTap[1].els) = 2
  /\ lastTap[1].els[1].pos.k = "null"
  /\ lastTap[1].els[2].pos.k = "pos" /\ lastTap[1].els[2].at = "root"
  /\ Len(wire) = 1
  /\ wire[1].msg.data[2] = lastTap[1].els[2].name
  /\ wire[1].msg.data[3] = "dom"
\* ---- proximity on the opaque surface ----

\* the squared distance, in px, from element k to the latest pointer-down of i
SquaredPx(i, k) ==
  LET dx == lastTap[i].els[k].pos.x - lastTap[i].x
      dy == lastTap[i].els[k].pos.y - lastTap[i].y
  IN dx * dx + dy * dy

\* the elements with a position strictly less than 35 px from that pointer-down
Near(i) ==
  {k \in 1..Len(lastTap[i].els) :
     lastTap[i].els[k].pos.k = "pos" /\ SquaredPx(i, k) < 35 * 35}

InjectedBy(o) == SelectSeq(injected, LAMBDA e : e.origin = o)

\* C21: whenever tapElement is answered with success true, a synthetic
\* pointer-down, pointer-up and click have been injected for that command, in
\* that order, at one position, before the response was handed to send().
C21_SuccessAfterInjection ==
  \A k \in Responses :
    wire[k].msg.command = "tapElement" /\ wire[k].msg.success =>
      LET evs == InjectedBy(calls[wire[k].call].origin)
      IN /\ Len(evs) = 3
         /\ evs[1].type = "pointerdown" /\ evs[2].type = "pointerup"
         /\ evs[3].type = "click"
         /\ \A j \in 1..3 :
              /\ evs[j].x = evs[1].x /\ evs[j].y = evs[1].y
              /\ evs[j].node = evs[1].node
              /\ evs[j].sends < wire[k].call
\* ---- the connected flag ----

\* C22: whenever isConnected() returns true the client holds a socket that is
\* open, so a send() at that moment is written.
C22_ConnectedMeansOpen ==
  \A i \in Instances :
    isConnected(i) => ws[i] # NULL /\ ReadyState(i) = "OPEN" /\ SendWrites(i)
\* ---- responses and connections ----

\* C23: a response is written only on the connection over which its command
\* arrived.
C23_AnsweredOnOwnConnection ==
  \A k \in Responses :
    wire[k].sock = inbound[calls[wire[k].call].origin].sock
\* ---- the order of answers within a frame ----

\* dispatch o reaches `await fn(...)`: executeCustomAction or
\* executeCustomCommand with a registered handler
Awaits(o) ==
  /\ inbound[o].command \in {"executeCustomAction", "executeCustomCommand"}
  /\ inbound[o].reg[IF inbound[o].command = "executeCustomAction"
                    THEN "actions" ELSE "commands"][inbound[o].name] # NoFn

\* the send() calls that carry a response of dispatch o
AnswersTo(o) ==
  {k \in 1..Len(calls) : calls[k].origin = o /\ calls[k].msg.type = "response"}

\* the dispatches of the frame of dispatch o
FrameOf(o) == {q \in 1..Len(inbound) : inbound[q].frame = inbound[o].frame}
\* the callable dispatch o reaches threw before it returned
ThrowsAtOnce(o) ==
  Awaits(o) /\ \E d \in completed : d.origin = o /\ d.how = "throw"

\* a position getter dispatch o reads throws
ReadsThrowingGetter(o) ==
  /\ inbound[o].posk = "throw"
  /\ \/ inbound[o].command = "getUIElements"
     \/ /\ inbound[o].command = "tapElement"
        /\ inbound[o].reg["elements"][inbound[o].name] # NoFn

\* dispatch o was answered before the line after it was dispatched
AnsweredAtOnce(o) ==
  \E k \in AnswersTo(o) : \A q \in FrameOf(o) : q > o => k <= inbound[q].sends

\* no answer of dispatch o was sent before every line of its frame was dispatched
AnsweredAfterFrame(o) ==
  \A k \in AnswersTo(o) : \A q \in FrameOf(o) : inbound[q].sends < k

RoutedTaps ==
  {k \in Responses :
     /\ wire[k].msg.command = "tapElement" /\ wire[k].msg.success
     /\ InjectedBy(calls[wire[k].call].origin) # <<>>}

\* the send() calls made while the pointer-down injected by dispatch o was
\* being delivered: after its dispatchEvent began, before the pointer-up
DuringDown(o) == (InjectedBy(o)[1].sends + 1)..InjectedBy(o)[2].sends

\* C25: the pointer-down injected by a successful tapElement is handled by the
\* instance's pointer listener; it makes the listener send at most one
\* elementTapped event, and that event is sent before the success response.
C25_SyntheticTapRouted ==
  \A k \in RoutedTaps :
    LET o == calls[wire[k].call].origin
        down == InjectedBy(o)[1]
        i == inbound[o].inst
    IN /\ down.type = "pointerdown"
       /\ Cardinality(DuringDown(o)) <= 1
       /\ \A c \in DuringDown(o) :
            /\ calls[c].msg.type = "event"
            /\ calls[c].msg.command = "elementTapped"
            /\ c < wire[k].call
       /\ o = Len(inbound) =>
            /\ lastTap[i].seen
            /\ lastTap[i].x = down.x /\ lastTap[i].y = down.y
            /\ lastTap[i].tapped = down.node
            /\ Len(lastTap[i].sent) = Cardinality(DuringDown(o))

\* two elements at one position on a button; tapElement of the second: the
\* listener names the first, and the event is on the wire before the response
C25_Witness ==
  /\ Len(inbound) = 1
  /\ Len(elements[1]) = 2
  /\ inbound[1].name = elements[1][2].name
  /\ lastTap[1].seen /\ lastTap[1].tapped = "btn"
  /\ Len(wire) = 2
  /\ wire[1].msg.type = "event"
  /\ wire[1].msg.data[2] = elements[1][1].name
  /\ wire[2].msg.type = "response" /\ wire[2].msg.success
====
